---- MODULE Spec2Model ----
(***************************************************************************)
(* A model of root-s3 (src/src/lib.rs): the client with its semaphore of   *)
(* MAX_CONCURRENT permits, the nine S3 operations, and add_root_auth, the  *)
(* hook that rewrites the request of a proxy-mode call.                    *)
(*                                                                         *)
(* A URI is a sequence of tokens: the delimiters ":", "/", "?" are tokens  *)
(* of their own and every other token is a run of characters that holds    *)
(* no delimiter, so "https://host/b1/k1" is                                *)
(*   <<"https", ":", "/", "/", "host", "/", "b1", "/", "k1">>.             *)
(* An Option is a sequence of length 0 (None) or 1 (Some).                 *)
(***************************************************************************)
EXTENDS Integers, Sequences, FiniteSets, TLC

VARIABLES client, permits, closed, waiters, others, call

vars == <<client, permits, closed, waiters, others, call>>

(***************************************************************************)
(* Program constants and the bounds of the model.                          *)
(***************************************************************************)
MAX_CONCURRENT == 20

\* Callers other than the one followed step by step.
NumOthers == 21

\* Stands for the longest URI the http crate parses (65534 bytes), scaled
\* to the names used here.
UriMaxLen == 100

None == <<>>

Some(x) == <<x>>

\* A prefix long enough that the rewritten URI no longer parses.
LongPrefix == "0123456789012345678901234567890123456789"

OrgIds == {7}

ProjectIds == {None, Some(42)}

\* "bad\nkey" holds a control character: no valid header value.
ApiKeys == {"abc", "bad\nkey"}

Buckets == {"b1"}

Keys == {<<"k1">>, <<"d", "/", "k1">>}

Prefixes == {"p", LongPrefix}

\* Authorities that are an IP address: the SDK addresses their buckets in
\* the path, and those of a DNS name in the host.
IpAuthorities == {"127.0.0.1:9000"}

\* https://host, http://127.0.0.1:9000 and a string that is no URL.
EndpointUrls ==
    { <<"https", ":", "/", "/", "host">>,
      <<"http", ":", "/", "/", "127.0.0.1:9000">>,
      <<"not a url">> }

\* The headers on a request when the hook is called.
HeaderSets ==
    { <<>>,
      <<[name |-> "x-amz-meta-a", value |-> "1"]>>,
      <<[name |-> "x-api-key", value |-> "old"]>> }

(***************************************************************************)
(* Strings and URIs.                                                       *)
(***************************************************************************)
\* The least index of tok in s, 0 when it has none.
IndexOfFirst(s, tok) ==
    IF \E i \in 1..Len(s) : s[i] = tok
    THEN CHOOSE i \in 1..Len(s) : s[i] = tok /\ \A j \in 1..(i - 1) : s[j] # tok
    ELSE 0

\* The greatest index of tok in s, 0 when it has none.
IndexOfLast(s, tok) ==
    IF \E i \in 1..Len(s) : s[i] = tok
    THEN CHOOSE i \in 1..Len(s) : s[i] = tok /\ \A j \in (i + 1)..Len(s) : s[j] # tok
    ELSE 0

\* The least index >= from of a token of toks in s, Len(s) + 1 when none.
IndexFrom(s, from, toks) ==
    IF \E i \in from..Len(s) : s[i] \in toks
    THEN CHOOSE i \in from..Len(s) : s[i] \in toks /\ \A j \in from..(i - 1) : s[j] \notin toks
    ELSE Len(s) + 1

\* The length of the string the tokens spell.
RECURSIVE ByteLen(_)
ByteLen(s) == IF s = <<>> THEN 0 ELSE Len(Head(s)) + ByteLen(Tail(s))

\* req_uri.split('?') [0]: what precedes the first '?'.
SplitQuestionFirst(req_uri) ==
    LET q == IndexOfFirst(req_uri, "?")
    IN  IF q = 0 THEN req_uri ELSE SubSeq(req_uri, 1, q - 1)

\* base_url.rsplit_once('/'): Some(what precedes the last '/'), or None.
RSplitOnceSlash(base_url) ==
    LET i == IndexOfLast(base_url, "/")
    IN  IF i = 0 THEN None ELSE Some(SubSeq(base_url, 1, i - 1))

\* scheme "://" at the head of the URI.
HasScheme(u) == Len(u) >= 4 /\ u[2] = ":" /\ u[3] = "/" /\ u[4] = "/"

\* Where the authority of an absolute URI ends: the index of the first '/'
\* or '?' after it.
AuthorityEnd(u) == IndexFrom(u, 5, {"/", "?"})

UriScheme(u) == IF HasScheme(u) THEN Some(u[1]) ELSE None

UriAuthority(u) == IF HasScheme(u) THEN SubSeq(u, 5, AuthorityEnd(u) - 1) ELSE <<>>

\* Uri::path(): from the first '/' after the authority to the query; "/"
\* when an absolute URI has no path.
UriPath(u) ==
    LET start == IF HasScheme(u) THEN AuthorityEnd(u) ELSE 1
        stop == IndexFrom(u, start, {"?"})
        p == SubSeq(u, start, stop - 1)
    IN  IF p = <<>> THEN <<"/">> ELSE p

\* Uri::query(): what follows the first '?', None without one.
UriQuery(u) ==
    LET q == IndexOfFirst(u, "?")
    IN  IF q = 0 THEN None ELSE Some(SubSeq(u, q + 1, Len(u)))

\* Whether the string parses as a URI: absolute with an authority, or a
\* path, and no longer than the parser allows.
IsValidUri(u) ==
    /\ ByteLen(u) <= UriMaxLen
    /\ \A i \in 1..Len(u) : u[i] # "not a url"
    /\ \/ HasScheme(u) /\ UriAuthority(u) # <<>>
       \/ Len(u) >= 1 /\ u[1] = "/"

\* Whether the SDK can resolve the endpoint: an absolute URL.
ValidEndpoint(url) == IsValidUri(url) /\ HasScheme(url)

(***************************************************************************)
(* The request the SDK builds for an operation, before the hook runs.      *)
(***************************************************************************)
ObjectOps == {"put_object", "copy_object", "get_object", "delete_object", "head_object"}

\* The operations whose request carries a query string.
QueryOf(op, prefix) ==
    CASE op = "list_objects" -> <<"?", "list-type=2&prefix=" \o prefix>>
      [] op = "get_object" -> <<"?", "x-id=GetObject">>
      [] op = "put_object" -> <<"?", "x-id=PutObject">>
      [] OTHER -> <<>>

\* The URI of the request: the endpoint, the bucket in the host (DNS
\* endpoint) or in the path (IP endpoint), the key, the query.
RequestUri(endpoint, op, bucket, key, prefix) ==
    LET inPath == endpoint[5] \in IpAuthorities
        host == IF op = "list_buckets" \/ inPath
                THEN endpoint
                ELSE [endpoint EXCEPT ![5] = bucket \o "." \o endpoint[5]]
        bucketPath == IF op # "list_buckets" /\ inPath THEN <<"/", bucket>> ELSE <<>>
        keyPath == IF op \in ObjectOps THEN <<"/">> \o key ELSE <<>>
        path == IF bucketPath \o keyPath = <<>> THEN <<"/">> ELSE bucketPath \o keyPath
    IN  host \o path \o QueryOf(op, prefix)

(***************************************************************************)
(* add_root_auth and the calls it makes.                                   *)
(***************************************************************************)
\* Whether Headers::append accepts the value; it panics on any other.
HeaderValueOk(value) == value # "bad\nkey"

\* Headers::insert in its place: the occurrences of the name are replaced.
HeadersInsert(headers, name, value) ==
    SelectSeq(headers, LAMBDA h : h.name # name)
        \o <<[name |-> name, value |-> value]>>

\* Headers::append: one more occurrence, after those already there.
HeadersAppend(headers, name, value) ==
    Append(headers, [name |-> name, value |-> value])

\* format!("/api/v1/organisations/{}/projects/{}/s3", org_id, project_id)
TenantPath(org_id, project_id) ==
    <<"/", "api", "/", "v1", "/", "organisations", "/", ToString(org_id),
      "/", "projects", "/", ToString(project_id), "/", "s3">>

\* The path: the tenant path, and the original path unless it is "/".
NewPath(org_id, project_id, original_path) ==
    IF original_path # <<"/">>
    THEN TenantPath(org_id, project_id) \o original_path
    ELSE TenantPath(org_id, project_id)

\* The query is not put back.
PutBackQueryDropped(new_uri, query) == new_uri

\* Put back the query if there was one.
PutBackQuery(new_uri, query) ==
    IF query # None THEN new_uri \o <<"?">> \o query[1] ELSE new_uri

\* Request::set_uri: replaces the URI if the string parses, and otherwise
\* returns an error and leaves the request as it was.
set_uri(req, new_uri) ==
    IF IsValidUri(new_uri)
    THEN [ok |-> TRUE, req |-> [req EXCEPT !.uri = new_uri]]
    ELSE [ok |-> FALSE, req |-> req]

\* Whether the hook returns at once: no config, or no project id.
ReturnsEarly(config, project_id) == config = None \/ project_id = None

\* The new URI of a request: url, path and query put together.
NewUri(req, org_id, project_id) ==
    LET base_url == SplitQuestionFirst(req.uri)
        url == RSplitOnceSlash(base_url)[1]
        path == NewPath(org_id, project_id, UriPath(req.uri))
    IN  PutBackQuery(url \o path, UriQuery(req.uri))

\* The hook with the header added before the project id is looked at.
add_root_auth_key_first(req, config, project_id) ==
    IF config = None
    THEN [panicked |-> FALSE, req |-> req]
    ELSE IF ~HeaderValueOk(config[1].api_key)
    THEN [panicked |-> TRUE, req |-> req]
    ELSE LET withKey ==
                 [req EXCEPT !.headers =
                     HeadersAppend(req.headers, "x-api-key", config[1].api_key)]
         IN  IF project_id = None
             THEN [panicked |-> FALSE, req |-> withKey]
             ELSE IF RSplitOnceSlash(SplitQuestionFirst(req.uri)) = None
             THEN [panicked |-> TRUE, req |-> withKey]
             ELSE [panicked |-> FALSE,
                   req |-> set_uri(withKey,
                                   NewUri(withKey, config[1].org_id, project_id[1])).req]

\* The hook. panicked: an unwrap or the append panicked; req: the request
\* when the hook returns (the result of set_uri is dropped).
add_root_auth(req, config, project_id) ==
    IF ReturnsEarly(config, project_id)
    THEN [panicked |-> FALSE, req |-> req]
    ELSE IF ~HeaderValueOk(config[1].api_key)
    THEN [panicked |-> TRUE, req |-> req]
    ELSE LET withKey ==
                 [req EXCEPT !.headers =
                     HeadersAppend(req.headers, "x-api-key", config[1].api_key)]
         IN  IF RSplitOnceSlash(SplitQuestionFirst(req.uri)) = None
             THEN [panicked |-> TRUE, req |-> withKey]
             ELSE [panicked |-> FALSE,
                   req |-> set_uri(withKey,
                                   NewUri(withKey, config[1].org_id, project_id[1])).req]

(***************************************************************************)
(* The state.                                                              *)
(*   client   what the constructor returned: ret is "none" before it is    *)
(*            called, then "Ok" or "InvalidUrl"; s3_client holds the       *)
(*            endpoint of the SDK client, config the RootConfig            *)
(*   permits  the permits the semaphore has available                      *)
(*   closed   whether the semaphore has been closed                        *)
(*   waiters  the queue of the callers suspended in acquire, oldest first: *)
(*            "call" is the caller followed step by step, "other" one of   *)
(*            the NumOthers other callers                                  *)
(*   others   how many of the other callers hold a permit                  *)
(*   call     the operation of the caller followed step by step: permit    *)
(*            tells whether it holds a SemaphorePermit, runs how often the *)
(*            hook has run on its request                                  *)
(***************************************************************************)
NoClient == [ret |-> "none", s3_client |-> None, config |-> None]

IdleCall ==
    [pc |-> "idle", op |-> "none", bucket |-> "", key |-> <<>>, prefix |-> "",
     project_id |-> None, orig |-> None, req |-> None, hook |-> "none",
     sent |-> None, result |-> "none", permit |-> FALSE, runs |-> 0]

Init ==
    /\ client = NoClient
    /\ permits = 0
    /\ closed = FALSE
    /\ waiters = <<>>
    /\ others = 0
    /\ call = IdleCall

(***************************************************************************)
(* Construction.                                                           *)
(***************************************************************************)
\* get_s3_client: builds the SDK client around the URL as given. It has no
\* path that returns Err.
get_s3_client(url) == [ok |-> TRUE, s3_client |-> url]

Construct(url, config) ==
    /\ client.ret = "none"
    /\ LET r == get_s3_client(url)
       IN  IF r.ok
           THEN /\ client' = [ret |-> "Ok", s3_client |-> Some(r.s3_client),
                              config |-> config]
                /\ permits' = MAX_CONCURRENT
           ELSE /\ client' = [NoClient EXCEPT !.ret = "InvalidUrl"]
                /\ UNCHANGED permits
    /\ UNCHANGED <<closed, waiters, others, call>>

\* Client::new
new ==
    \E url \in EndpointUrls, api_key \in ApiKeys, org_id \in OrgIds :
        Construct(url, Some([api_key |-> api_key, org_id |-> org_id]))

\* Client::new_from_s3_credentials
new_from_s3_credentials ==
    \E url \in EndpointUrls : Construct(url, None)

(***************************************************************************)
(* The semaphore.                                                          *)
(***************************************************************************)
\* acquire that does not look at the closed flag.
AcquireNeverFails(isClosed) == FALSE

\* Whether acquire returns an AcquireError: the semaphore is closed.
AcquireFails(isClosed) == isClosed

\* acquire that never waits.
AcquiresNowUnchecked(p, w) == TRUE

\* Whether acquire returns a permit at once: one is free and nobody queues.
AcquiresNow(p, w) == p > 0 /\ w = <<>>

\* A queue that serves the newest waiter first.
EnqueueFront(w, who) == <<who>> \o w

\* A caller that has to wait joins the queue at its end.
Enqueue(w, who) == Append(w, who)

\* Dropping a permit: it goes to the oldest waiter, or back to the pool.
DropPermit(p, w) ==
    IF w = <<>>
    THEN [permits |-> p + 1, waiters |-> w, admitted |-> None]
    ELSE [permits |-> p, waiters |-> Tail(w), admitted |-> Some(Head(w))]

\* The state after a permit is dropped, where callAfter and othersAfter are
\* the caller and the count of the others once the dropper has left.
Release(callAfter, othersAfter) ==
    LET r == DropPermit(permits, waiters)
    IN  /\ permits' = r.permits
        /\ waiters' = r.waiters
        /\ call' = IF r.admitted = Some("call")
                   THEN [callAfter EXCEPT !.pc = "acquired", !.permit = TRUE]
                   ELSE callAfter
        /\ others' = IF r.admitted = Some("other")
                     THEN othersAfter + 1
                     ELSE othersAfter

OthersWaiting == Cardinality({i \in 1..Len(waiters) : waiters[i] = "other"})

\* One of the other callers starts an operation.
OtherCall ==
    /\ client.s3_client # None
    /\ others + OthersWaiting < NumOthers
    /\ IF AcquireFails(closed)
       THEN UNCHANGED <<permits, waiters, others>>
       ELSE IF AcquiresNow(permits, waiters)
       THEN /\ permits' = permits - 1
            /\ others' = others + 1
            /\ UNCHANGED waiters
       ELSE /\ waiters' = Enqueue(waiters, "other")
            /\ UNCHANGED <<permits, others>>
    /\ UNCHANGED <<client, closed, call>>

\* One of the other callers' operations returns: Ok, an error or a panic.
OtherReturn ==
    /\ others > 0
    /\ Release(call, others - 1)
    /\ UNCHANGED <<client, closed>>

(***************************************************************************)
(* An operation of the caller followed step by step.                       *)
(***************************************************************************)
\* The head of every operation: clone the config, acquire a permit; an
\* AcquireError ends the operation with Error::SemaphoreError.
Begin(op, bucket, key, prefix, project_id) ==
    /\ client.s3_client # None
    /\ call.pc \in {"idle", "returned"}
    /\ LET c == [IdleCall EXCEPT !.op = op, !.bucket = bucket, !.key = key,
                                 !.prefix = prefix, !.project_id = project_id]
       IN  IF AcquireFails(closed)
           THEN /\ call' = [c EXCEPT !.pc = "returned", !.result = "SemaphoreError"]
                /\ UNCHANGED <<permits, waiters>>
           ELSE IF AcquiresNow(permits, waiters)
           THEN /\ permits' = permits - 1
                /\ call' = [c EXCEPT !.pc = "acquired", !.permit = TRUE]
                /\ UNCHANGED waiters
           ELSE /\ waiters' = Enqueue(waiters, "call")
                /\ call' = [c EXCEPT !.pc = "waiting"]
                /\ UNCHANGED permits
    /\ UNCHANGED <<client, closed, others>>

create_bucket ==
    \E bucket \in Buckets, project_id \in ProjectIds :
        Begin("create_bucket", bucket, <<>>, "", project_id)

delete_bucket ==
    \E bucket \in Buckets, project_id \in ProjectIds :
        Begin("delete_bucket", bucket, <<>>, "", project_id)

list_buckets ==
    \E project_id \in ProjectIds :
        Begin("list_buckets", "", <<>>, "", project_id)

put_object ==
    \E bucket \in Buckets, key \in Keys, project_id \in ProjectIds :
        Begin("put_object", bucket, key, "", project_id)

copy_object ==
    \E bucket \in Buckets, key \in Keys, project_id \in ProjectIds :
        Begin("copy_object", bucket, key, "", project_id)

get_object ==
    \E bucket \in Buckets, key \in Keys, project_id \in ProjectIds :
        Begin("get_object", bucket, key, "", project_id)

delete_object ==
    \E bucket \in Buckets, key \in Keys, project_id \in ProjectIds :
        Begin("delete_object", bucket, key, "", project_id)

list_objects ==
    \E bucket \in Buckets, prefix \in Prefixes, project_id \in ProjectIds :
        Begin("list_objects", bucket, <<>>, prefix, project_id)

head_object ==
    \E bucket \in Buckets, key \in Keys, project_id \in ProjectIds :
        Begin("head_object", bucket, key, "", project_id)

\* A return that keeps the permit when the hook panicked.
ReturnKeepsPermitOnPanic(result, hook) ==
    IF result = "Panic"
    THEN /\ call' = [IdleCall EXCEPT !.pc = "returned", !.op = call.op,
                                     !.hook = hook, !.result = result]
         /\ UNCHANGED <<permits, waiters, others>>
    ELSE Release([IdleCall EXCEPT !.pc = "returned", !.op = call.op,
                                  !.hook = hook, !.result = result],
                 others)

\* The operation returns: its permit is dropped as its scope ends, on
\* every way out.
Return(result, hook) ==
    Release([IdleCall EXCEPT !.pc = "returned", !.op = call.op,
                             !.hook = hook, !.result = result],
            others)

\* send(): the SDK builds the request. An endpoint it cannot resolve ends
\* the call with the operation's error; the hook is not called.
Build ==
    /\ call.pc = "acquired"
    /\ IF ValidEndpoint(client.s3_client[1])
       THEN /\ \E headers \in HeaderSets :
                  LET req == [uri |-> RequestUri(client.s3_client[1], call.op,
                                                 call.bucket, call.key, call.prefix),
                              headers |-> headers]
                  IN  call' = [call EXCEPT !.pc = "built", !.orig = Some(req),
                                           !.req = Some(req)]
            /\ UNCHANGED <<permits, waiters, others>>
       ELSE Return("ServiceError", "none")
    /\ UNCHANGED <<client, closed>>

\* mutate_request: the SDK calls the hook on the request it built. A panic
\* in the hook unwinds through the operation.
Intercept ==
    /\ call.pc = "built"
    /\ LET r == add_root_auth(call.req[1], client.config, call.project_id)
       IN  IF r.panicked
           THEN Return("Panic", "panicked")
           ELSE /\ call' = [call EXCEPT !.pc = "mutated", !.req = Some(r.req),
                                        !.hook = "ran", !.runs = @ + 1]
                /\ UNCHANGED <<permits, waiters, others>>
    /\ UNCHANGED <<client, closed>>

\* A send that does not pass the request through the hook.
TransmitUnmutated ==
    /\ call.pc = "built"
    /\ call' = [call EXCEPT !.pc = "sent", !.sent = call.req]
    /\ UNCHANGED <<client, permits, closed, waiters, others>>

\* The SDK transmits the request as the hook left it.
Transmit ==
    /\ call.pc = "mutated"
    /\ call' = [call EXCEPT !.pc = "sent", !.sent = call.req]
    /\ UNCHANGED <<client, permits, closed, waiters, others>>

\* The response: the output, or the operation's error.
Respond ==
    /\ call.pc = "sent"
    /\ \E result \in {"Ok", "ServiceError"} : Return(result, call.hook)
    /\ UNCHANGED <<client, closed>>

Next ==
    \/ new
    \/ new_from_s3_credentials
    \/ create_bucket
    \/ delete_bucket
    \/ list_buckets
    \/ put_object
    \/ copy_object
    \/ get_object
    \/ delete_object
    \/ list_objects
    \/ head_object
    \/ Build
    \/ Intercept
    \/ Transmit
    \/ Respond
    \/ OtherCall
    \/ OtherReturn

Spec == Init /\ [][Next]_vars

\* Semaphore::close on the client's public semaphore field: later acquires
\* fail and the callers suspended in acquire are woken with an
\* AcquireError; the permits stay as they are.
Close ==
    /\ client.s3_client # None
    /\ ~closed
    /\ closed' = TRUE
    /\ waiters' = <<>>
    /\ call' = IF call.pc = "waiting"
               THEN [call EXCEPT !.pc = "returned", !.result = "SemaphoreError"]
               ELSE call
    /\ UNCHANGED <<client, permits, others>>

NextClose == Next \/ Close

\* The program and an owner of the client who closes its semaphore.
SpecClose == Init /\ [][NextClose]_vars

\* The hook handed a request whose URI is absolute and ends right after
\* the authority, with no '/' of a path: "https://host".
BuildBare ==
    /\ call.pc = "acquired"
    /\ call.op = "list_buckets"
    /\ ValidEndpoint(client.s3_client[1])
    /\ \E headers \in HeaderSets :
           LET req == [uri |-> client.s3_client[1], headers |-> headers]
           IN  call' = [call EXCEPT !.pc = "built", !.orig = Some(req),
                                    !.req = Some(req)]
    /\ UNCHANGED <<client, permits, closed, waiters, others>>

NextShapes == Next \/ BuildBare

\* The program with add_root_auth applied to that shape of URI as well.
SpecShapes == Init /\ [][NextShapes]_vars

\* The operations of the other callers complete: each one in flight
\* returns in the end. (While the followed caller waits, the operations in
\* flight are all theirs.)
SpecLive == Spec /\ WF_vars(OtherReturn)

(***************************************************************************)
(* Properties.                                                             *)
(***************************************************************************)
\* The operations that have acquired a permit and not yet returned.
Holders ==
    others + (IF call.pc \in {"acquired", "built", "mutated", "sent"} THEN 1 ELSE 0)

\* The hook has returned on the request of the call.
HookDone == call.pc \in {"mutated", "sent"} /\ call.hook = "ran"

\* The call is a proxy-mode call with a project id.
ProxyCall == client.config # None /\ call.project_id # None

\* C1: the number of operations that hold a permit and have not returned
\* never exceeds MAX_CONCURRENT, whatever the callers do.
C1_AtMostMaxConcurrent == Holders <= MAX_CONCURRENT

\* C1 witness: MAX_CONCURRENT operations are in flight and more callers
\* are waiting, the followed caller among the holders.
C1_Witness ==
    /\ Holders = MAX_CONCURRENT
    /\ Len(waiters) >= 1
    /\ call.pc = "sent"

\* C2: every permit acquired is given back exactly once, on every way out:
\* the free permits and the permits held always add up to the capacity, so
\* that with no operation in flight the semaphore is full again.
C2_PermitsGivenBack ==
    client.ret = "Ok" =>
        /\ permits + Holders = MAX_CONCURRENT
        /\ permits >= 0
        /\ (Holders = 0 => permits = MAX_CONCURRENT)

\* C2 witness: the followed operation panicked in the hook, after others
\* came and went, and the semaphore is full.
C2_Witness ==
    /\ call.pc = "returned"
    /\ call.result = "Panic"
    /\ Holders = 0
    /\ permits = MAX_CONCURRENT

\* C3: while MAX_CONCURRENT operations are in flight a further operation
\* stays at acquire with no request built or sent, and the operations in
\* flight can still return; a permit that is dropped goes to the oldest
\* waiter; and every waiting operation is admitted in the end.
C3_WaitsThenAdmitted ==
    /\ [](call.pc = "waiting" =>
            /\ Holders = MAX_CONCURRENT
            /\ call.orig = None /\ call.req = None /\ call.sent = None
            /\ ENABLED OtherReturn)
    /\ [][(call.pc = "waiting" /\ Head(waiters) = "call" /\ others' < others)
            => call'.pc = "acquired"]_vars
    /\ [][(waiters # <<>> /\ call.pc \in {"acquired", "built", "mutated", "sent"}
             /\ call'.pc = "returned")
            => (waiters' = Tail(waiters) /\ others' = others + 1)]_vars
    /\ (call.pc = "waiting") ~> (call.pc = "acquired")

\* C3 witness: the followed operation waits behind another waiter.
C3_Witness ==
    /\ call.pc = "waiting"
    /\ Len(waiters) = 2
    /\ waiters[2] = "call"
    /\ others = MAX_CONCURRENT

\* C4: without a config or without a project id the hook leaves the URI
\* and the headers as they were, and a second run changes nothing either.
C4_NoOpWithoutAuth ==
    (HookDone /\ (client.config = None \/ call.project_id = None)) =>
        /\ call.req = call.orig
        /\ add_root_auth(call.req[1], client.config, call.project_id)
             = [panicked |-> FALSE, req |-> call.orig[1]]

\* C4 witness: a proxy-mode client, a call without a project id, and a
\* request that has headers and a query.
C4_Witness ==
    /\ HookDone
    /\ client.config # None
    /\ call.project_id = None
    /\ call.orig[1].headers # <<>>
    /\ UriQuery(call.orig[1].uri) # None

\* C5: in a proxy-mode call with a project id whose original path is not
\* "/", the rewritten URI keeps the scheme and the host, and its path is
\* the tenant path followed by the original path.
C5_TenantPathThenOriginalPath ==
    (HookDone /\ ProxyCall /\ UriPath(call.orig[1].uri) # <<"/">>) =>
        /\ UriScheme(call.req[1].uri) = UriScheme(call.orig[1].uri)
        /\ UriAuthority(call.req[1].uri) = UriAuthority(call.orig[1].uri)
        /\ UriPath(call.req[1].uri)
             = TenantPath(client.config[1].org_id, call.project_id[1])
                 \o UriPath(call.orig[1].uri)

\* C6: in a proxy-mode call with a project id whose original path is "/",
\* the rewritten path is the tenant path and nothing more.
C6_RootPathIsTenantPath ==
    (HookDone /\ ProxyCall /\ UriPath(call.orig[1].uri) = <<"/">>) =>
        UriPath(call.req[1].uri)
          = TenantPath(client.config[1].org_id, call.project_id[1])

\* How often tok occurs in s.
Count(s, tok) == Cardinality({i \in 1..Len(s) : s[i] = tok})

\* C7: a URI with a query ?X ends with ?X after the hook, the query as it
\* was and there once; a URI without a query has none after the hook.
C7_QueryKept ==
    HookDone =>
        LET before == call.orig[1].uri
            after == call.req[1].uri
            q == UriQuery(before)
        IN  IF q = None
            THEN Count(after, "?") = 0
            ELSE /\ Len(after) > Len(q[1])
                 /\ SubSeq(after, Len(after) - Len(q[1]), Len(after)) = <<"?">> \o q[1]
                 /\ Count(after, "?") = 1

\* C7 witness: a URI with a query was rewritten.
C7_Witness ==
    /\ HookDone
    /\ UriQuery(call.orig[1].uri) # None
    /\ call.req[1].uri # call.orig[1].uri

\* C8: in a proxy-mode call with a project id the hook adds one x-api-key
\* header with the client's api_key after the headers of the request, all
\* of which stay, an x-api-key among them too.
C8_ApiKeyAppended ==
    (HookDone /\ ProxyCall) =>
        call.req[1].headers
          = call.orig[1].headers
              \o <<[name |-> "x-api-key", value |-> client.config[1].api_key]>>

\* C8 witness: the request came with an x-api-key header of its own.
C8_Witness ==
    /\ HookDone
    /\ ProxyCall
    /\ \E i \in 1..Len(call.orig[1].headers) :
           call.orig[1].headers[i].name = "x-api-key"

\* The hook cannot put the new URI together, or set_uri rejects it.
RewriteFails(req, org_id, project_id) ==
    \/ RSplitOnceSlash(SplitQuestionFirst(req.uri)) = None
    \/ ~IsValidUri(NewUri(req, org_id, project_id))

\* C9: when the URI cannot be split or the new URI is rejected, nothing is
\* transmitted for the call.
C9_NothingSentAfterFailedRewrite ==
    (call.orig # None /\ ProxyCall
       /\ RewriteFails(call.orig[1], client.config[1].org_id, call.project_id[1]))
        => call.sent = None

\* C10: a constructor given an invalid endpoint URL returns InvalidUrl and
\* no client, so that no operation starts against that endpoint.
C10_InvalidUrlRejected ==
    /\ client.s3_client # None => ValidEndpoint(client.s3_client[1])
    /\ call.pc # "idle" => ValidEndpoint(client.s3_client[1])

\* C11: acquire fails only when the semaphore is closed; the operation
\* then returns Error::SemaphoreError with no request built or sent and no
\* permit taken, the step that fails leaves the permits as they are, and
\* the operation is not tried again: on a closed semaphore every operation
\* that starts ends this way.
C11_AcquireFailsOnlyWhenClosed ==
    /\ [](call.result = "SemaphoreError" =>
            /\ closed
            /\ call.pc = "returned"
            /\ call.orig = None /\ call.req = None /\ call.sent = None
            /\ ~call.permit /\ call.runs = 0)
    /\ [][(call'.result = "SemaphoreError" /\ call' # call) =>
            /\ call.pc \in {"idle", "returned", "waiting"}
            /\ permits' = permits
            /\ others' = others]_vars
    /\ [][(closed /\ call' # call /\ call.pc \in {"idle", "returned"}) =>
            call'.result = "SemaphoreError"]_vars

\* C11 witness: an operation failed on the closed semaphore while permits
\* were free and other operations were in flight.
C11_Witness ==
    /\ closed
    /\ call.result = "SemaphoreError"
    /\ call.op = "put_object"
    /\ permits > 0
    /\ others > 0

\* C12: an operation acquires, builds, runs the hook, sends, gets its
\* response and releases, in this order: a request is built and sent only
\* under a permit, the request sent is the one the hook returned, the hook
\* has run on it exactly once, and the permit goes when the call returns.
C12_StepsInOrder ==
    /\ [](call.permit <=> call.pc \in {"acquired", "built", "mutated", "sent"})
    /\ [](call.orig # None => call.permit)
    /\ [](call.runs <= 1)
    /\ [](call.sent # None =>
            /\ call.permit
            /\ call.runs = 1
            /\ call.hook = "ran"
            /\ call.sent = call.req
            /\ call.sent[1]
                 = add_root_auth(call.orig[1], client.config, call.project_id).req)
    /\ [][(call'.pc = "built" /\ call.pc # "built") => call.pc = "acquired"]_vars
    /\ [][(call'.pc = "mutated" /\ call.pc # "mutated") => call.pc = "built"]_vars
    /\ [][(call'.pc = "sent" /\ call.pc # "sent") => call.pc = "mutated"]_vars
    /\ [][(call.permit /\ ~call'.permit) => call'.pc = "returned"]_vars
    /\ [][(call'.result = "Ok" /\ call' # call) => call.pc = "sent"]_vars

\* C12 witness: a rewritten request has been sent.
C12_Witness ==
    /\ call.pc = "sent"
    /\ ProxyCall
    /\ call.permit
    /\ call.runs = 1
    /\ call.sent[1].uri # call.orig[1].uri

====
